---- MODULE Spec2Model ----
(***************************************************************************)
(* PixelCover: the round state machine of src/App.tsx over the catalog     *)
(* gateway of src/unnamed/part_001 (services/spotify).                     *)
(*                                                                         *)
(* Every React state cell of the App component is a variable.  A handler   *)
(* runs to completion and its state updates are committed together, so a   *)
(* synchronous handler is one action; an async handler is one action per   *)
(* stretch between two awaits, and the values its closure captured when it *)
(* was called travel in the request record it leaves in `pending`.         *)
(* Text is a sequence of one-character strings.                            *)
(***************************************************************************)
EXTENDS Integers, Sequences, FiniteSets, Bags

VARIABLES status, gameMode, difficulty, loading, error, toastMessage,
          searchInput, artistCandidates, currentArtist, showQuitConfirm,
          targetAlbum, guessesUsed, pixelFactor, lastWrongGuess,
          playedIds, lossReason, hintLevel, enableTimer, timeLeft, score,
          pending, loads

vars == <<status, gameMode, difficulty, loading, error, toastMessage,
          searchInput, artistCandidates, currentArtist, showQuitConfirm,
          targetAlbum, guessesUsed, pixelFactor, lastWrongGuess,
          playedIds, lossReason, hintLevel, enableTimer, timeLeft, score,
          pending, loads>>

(* loads counts the round loads begun (handleSelectArtist, handleRandomStart,
   nextRound): it is read by no action *)
(* the round's own cells, the menu's cells *)
roundVars == <<targetAlbum, guessesUsed, pixelFactor,
               lastWrongGuess, hintLevel, timeLeft>>
menuVars == <<difficulty, enableTimer, searchInput>>

----------------------------------------------------------------------------
(* Bounds of the model *)

\* round loads the player begins in one behaviour of a session without and
\* with the timer
MaxLoads == 2
MaxTimedLoads == 1
\* requests in flight at once where the overlay is got around
MaxInFlight == 2
\* length of the texts typed into the guess field, all of them tried
MaxTextLen == 3

----------------------------------------------------------------------------
(* Program constants *)

MAX_GUESSES == 4
STARTING_PIXELATION == 35
\* variant: the allotments of EASY and HARD change places
TIMER_SETTINGS_Swapped == [EASY |-> 5, MEDIUM |-> 10, HARD |-> 30]

TIMER_SETTINGS == [EASY |-> 30, MEDIUM |-> 10, HARD |-> 5]
SKIP_COST == 50
HINT_COST == 25
MIN_PIXELATION == 4

GameStatus == {"MENU", "PLAYING", "WON", "LOST", "ALL_CLEARED"}
GameMode == {"SPECIFIC", "RANDOM"}
Difficulty == {"EASY", "MEDIUM", "HARD"}
HintLevel == {"NONE", "MASKED", "FIRST_WORD"}
LossReason == {"SKIP", "TIME_UP", "OUT_OF_GUESSES"}

\* null of a string-valued cell
Null == "null"
\* null / a value of an object-valued cell
None == <<>>
Some(x) == <<x>>

SkipToast == "Not enough XP! Need 50 XP to skip."
HintToast == "Not enough XP! Need 25 XP for a hint."

----------------------------------------------------------------------------
(* Text *)

UpperChars == <<"A","B","C","D","E","F","G","H","I","J","K","L","M",
                "N","O","P","Q","R","S","T","U","V","W","X","Y","Z">>
LowerChars == <<"a","b","c","d","e","f","g","h","i","j","k","l","m",
                "n","o","p","q","r","s","t","u","v","w","x","y","z">>
DigitChars == {"0","1","2","3","4","5","6","7","8","9"}
Whitespace == {" "}

Range(f) == {f[i] : i \in DOMAIN f}

IsLetterOrNumber(c) == c \in Range(UpperChars) \cup Range(LowerChars) \cup DigitChars

ToLowerChar(c) ==
    IF c \in Range(UpperChars)
    THEN LowerChars[CHOOSE i \in 1..26 : UpperChars[i] = c]
    ELSE c

ToLowerCase(str) == [i \in 1..Len(str) |-> ToLowerChar(str[i])]

\* str.split(sep)[0]: the text before the first sep, all of it when there is none
SplitFirst(str, sep) ==
    IF \E i \in 1..Len(str) : str[i] = sep
    THEN SubSeq(str, 1, (CHOOSE i \in 1..Len(str) :
                           /\ str[i] = sep
                           /\ \A j \in 1..(i-1) : str[j] # sep) - 1)
    ELSE str

\* str.replace(/[^\p{L}\p{N}]/gu, '')
StripNonAlnum(str) == SelectSeq(str, IsLetterOrNumber)

\* variant: the text is not lowered
normalizeString_CaseSensitive(str) ==
    StripNonAlnum(SplitFirst(SplitFirst(str, "("), "-"))

normalizeString(str) ==
    StripNonAlnum(SplitFirst(SplitFirst(ToLowerCase(str), "("), "-"))

RECURSIVE TrimStart(_)
TrimStart(str) ==
    IF str # <<>> /\ Head(str) \in Whitespace THEN TrimStart(Tail(str)) ELSE str

RECURSIVE TrimEnd(_)
TrimEnd(str) ==
    IF str # <<>> /\ str[Len(str)] \in Whitespace
    THEN TrimEnd(SubSeq(str, 1, Len(str) - 1)) ELSE str

Trim(str) == TrimEnd(TrimStart(str))

----------------------------------------------------------------------------
(* The catalog behind the gateway *)

Artists == {"a1", "a2"}

TxtAbbeyRoad == <<"A","b","b","e","y"," ","R","o","a","d">>
TxtThrillerEd == <<"T","h","r","i","l","l","e","r"," ","(","2","5","t","h"," ",
                   "A","n","n","i","v","e","r","s","a","r","y"," ",
                   "E","d","i","t","i","o","n",")">>
TxtParens == <<"(", " ", ")">>
TxtNoCover == <<"D","e","m","o">>

\* the items the service lists: id, name, whether images[0].url is there
Items == {
    [id |-> "t1", name |-> TxtAbbeyRoad, cover |-> TRUE],
    [id |-> "t2", name |-> TxtThrillerEd, cover |-> TRUE],
    [id |-> "t3", name |-> TxtParens, cover |-> TRUE],
    [id |-> "t4", name |-> TxtNoCover, cover |-> FALSE] }

ItemOf(id) == CHOOSE it \in Items : it.id = id

\* ids the service lists for an artist: top tracks (EASY), albums and singles
\* with limit 20 (MEDIUM) or 50 (HARD)
Pool(artist, diff) ==
    IF artist = "a1"
    THEN CASE diff = "EASY" -> {"t1"}
           [] diff = "MEDIUM" -> {"t1", "t2"}
           [] diff = "HARD" -> {"t1", "t3"}
    ELSE CASE diff = "EASY" -> {}
           [] diff = "MEDIUM" -> {"t4"}
           [] diff = "HARD" -> {}

\* what a search can answer
SearchResults == {<<>>, <<"a1", "a2">>}

\* messages of the errors a gateway call can throw
GatewayErrors == {"Failed to fetch Spotify access token", ""}

\* texts the player types
TxtEmpty == <<>>
TxtBlank == <<" ", " ">>
TxtPunct == <<"!", "!", "!">>
TxtAbbeyLower == <<"a","b","b","e","y"," ","r","o","a","d">>
TxtThriller == <<"t","h","r","i","l","l","e","r">>
GuessTexts == {TxtEmpty, TxtBlank, TxtPunct, TxtAbbeyLower, TxtThriller}
SearchTexts == {<<>>, <<"q">>}

\* scores found in localStorage when the application opens
InitScores == {40, 60}

----------------------------------------------------------------------------
(* State after construction *)

Init ==
    /\ status = "MENU"
    /\ gameMode = "SPECIFIC"
    /\ difficulty = "MEDIUM"
    /\ loading = FALSE
    /\ error = Null
    /\ toastMessage = Null
    /\ searchInput = <<>>
    /\ artistCandidates = <<>>
    /\ currentArtist = Null
    /\ showQuitConfirm = FALSE
    /\ targetAlbum = None
    /\ guessesUsed = 0
    /\ pixelFactor = STARTING_PIXELATION
    /\ lastWrongGuess = None
    /\ playedIds = <<>>
    /\ lossReason = Null
    /\ hintLevel = "NONE"
    /\ enableTimer = FALSE
    /\ timeLeft = 0
    /\ score \in InitScores
    /\ pending = EmptyBag
    /\ loads = 0

----------------------------------------------------------------------------
(* What the screen lets the player reach *)

\* the time-up effect of the last commit has still to run: it runs before
\* any later event is handled
TimeUpDue == status = "PLAYING" /\ enableTimer /\ timeLeft = 0

\* the loading overlay (z-50) and the quit dialog (z-60) cover the page:
\* nothing under them takes a click
Covered == loading \/ showQuitConfirm

\* a control of the page can be clicked
CanClick == ~TimeUpDue /\ ~Covered

\* a focused text field still takes the keyboard under an overlay
CanType == ~TimeUpDue

RoundShown == status \notin {"MENU", "ALL_CLEARED"} /\ targetAlbum # None

InFlight == BagCardinality(pending)

Send(req) == pending (+) SetToBag({req})
Receive(req) == pending (-) SetToBag({req})

----------------------------------------------------------------------------
(* Menu *)

SetDifficulty(level) ==
    /\ status = "MENU" /\ CanClick
    /\ difficulty' = level
    /\ UNCHANGED <<status, gameMode, loading, error, toastMessage,
                   searchInput, artistCandidates, currentArtist,
                   showQuitConfirm, roundVars, playedIds, lossReason,
                   enableTimer, score, pending>>
    /\ UNCHANGED loads

ToggleTimer ==
    /\ status = "MENU" /\ CanClick
    /\ enableTimer' = ~enableTimer
    /\ UNCHANGED <<status, gameMode, difficulty, loading, error, toastMessage,
                   searchInput, artistCandidates, currentArtist,
                   showQuitConfirm, roundVars, playedIds, lossReason,
                   score, pending>>
    /\ UNCHANGED loads

SetSearchInput(text) ==
    /\ status = "MENU" /\ CanType
    /\ searchInput' = text
    /\ UNCHANGED <<status, gameMode, difficulty, loading, error, toastMessage,
                   artistCandidates, currentArtist, showQuitConfirm,
                   roundVars, playedIds, lossReason, enableTimer, score,
                   pending>>
    /\ UNCHANGED loads

\* Enter in the search field, or the Search button
handleSearch ==
    /\ status = "MENU" /\ CanType
    /\ Trim(searchInput) # <<>>
    /\ loading' = TRUE
    /\ artistCandidates' = <<>>
    /\ error' = Null
    /\ pending' = Send([kind |-> "search"])
    /\ UNCHANGED <<status, gameMode, toastMessage, menuVars, currentArtist,
                   showQuitConfirm, roundVars, playedIds, lossReason, score>>
    /\ UNCHANGED loads

\* searchArtists answered (results) or threw
handleSearchDone ==
    /\ ~TimeUpDue
    /\ BagIn([kind |-> "search"], pending)
    /\ pending' = Receive([kind |-> "search"])
    /\ \/ \E results \in SearchResults :
            /\ artistCandidates' = results
            /\ error' = IF Len(results) = 0 THEN "No artists found" ELSE error
       \/ /\ error' = "Error searching artists"
          /\ UNCHANGED artistCandidates
    /\ loading' = FALSE
    /\ UNCHANGED <<status, gameMode, toastMessage, menuVars, currentArtist,
                   showQuitConfirm, roundVars, playedIds, lossReason, score>>
    /\ UNCHANGED loads

----------------------------------------------------------------------------
(* Round load *)

\* loadRound up to its first await.  mode and timer are gameMode and
\* enableTimer as the calling render saw them.
LoadRequest(artist, played, diff, mode, timer) ==
    [kind |-> "load", stage |-> 1, artist |-> artist, played |-> played,
     diff |-> diff, mode |-> mode, timer |-> timer]

loadRound(artist, played, diff, mode, timer, rest) ==
    /\ loading' = TRUE
    /\ error' = Null
    /\ artistCandidates' = <<>>
    /\ lossReason' = Null
    /\ pending' = rest (+) SetToBag({LoadRequest(artist, played, diff, mode, timer)})

handleSelectArtist(artist) ==
    /\ status = "MENU" /\ CanClick
    /\ artist \in Range(artistCandidates)
    /\ currentArtist' = artist
    /\ gameMode' = "SPECIFIC"
    /\ playedIds' = <<>>
    /\ loadRound(artist, <<>>, difficulty, gameMode, enableTimer, pending)
    /\ UNCHANGED <<status, toastMessage, menuVars, showQuitConfirm,
                   roundVars, score>>
    /\ loads' = loads + 1

RandomRequest == [kind |-> "random", diff |-> difficulty, mode |-> gameMode,
                  timer |-> enableTimer]

\* handleRandomStart up to its awaits (getRandomArtistName, searchArtists)
RandomStart ==
    /\ loading' = TRUE
    /\ pending' = Send(RandomRequest)

handleRandomStart ==
    /\ status = "MENU" /\ CanClick
    /\ RandomStart
    /\ UNCHANGED <<status, gameMode, error, toastMessage, menuVars,
                   artistCandidates, currentArtist, showQuitConfirm,
                   roundVars, playedIds, lossReason, score>>
    /\ loads' = loads + 1

\* the lookup threw or found no artist
handleRandomFailed(req) ==
    /\ ~TimeUpDue
    /\ BagIn(req, pending) /\ req.kind = "random"
    /\ error' = "Failed to fetch random artist. Try again."
    /\ loading' = FALSE
    /\ pending' = Receive(req)
    /\ UNCHANGED <<status, gameMode, toastMessage, menuVars, artistCandidates,
                   currentArtist, showQuitConfirm, roundVars, playedIds,
                   lossReason, score>>
    /\ UNCHANGED loads

\* the lookup found candidates: candidates[0] is the artist
handleRandomFound(req, artist) ==
    /\ ~TimeUpDue
    /\ BagIn(req, pending) /\ req.kind = "random"
    /\ currentArtist' = artist
    /\ gameMode' = "RANDOM"
    /\ playedIds' = <<>>
    /\ loadRound(artist, <<>>, req.diff, req.mode, req.timer, Receive(req))
    /\ UNCHANGED <<status, toastMessage, menuVars, showQuitConfirm,
                   roundVars, score>>
    /\ UNCHANGED loads

\* getRandomAlbumForArtist: items is what the service listed (nothing when
\* it answered with an error body); null, or any item not excluded
Available(items, excludeIds) == items \ Range(excludeIds)

ItemLists(artist, diff) == {Pool(artist, diff), {}}

\* catch (err): setError(err.message || 'Could not load round'), MENU
LoadFailed(req, message) ==
    /\ error' = IF message = "" THEN "Could not load round" ELSE message
    /\ status' = "MENU"
    /\ loading' = FALSE
    /\ pending' = Receive(req)
    /\ UNCHANGED <<gameMode, toastMessage, menuVars, artistCandidates,
                   currentArtist, showQuitConfirm, roundVars, playedIds,
                   lossReason, score>>

\* the gateway call threw
loadRoundThrew(req) ==
    /\ ~TimeUpDue
    /\ BagIn(req, pending) /\ req.kind = "load"
    /\ \E message \in GatewayErrors : LoadFailed(req, message)
    /\ UNCHANGED loads

\* the gateway answered null
loadRoundNull(req) ==
    /\ ~TimeUpDue
    /\ BagIn(req, pending) /\ req.kind = "load"
    /\ \E items \in ItemLists(req.artist, req.diff) :
          Available(items, req.played) = {}
    /\ IF req.stage = 1
       THEN IF req.mode = "SPECIFIC"
            THEN /\ status' = "ALL_CLEARED"
                 /\ loading' = FALSE
                 /\ pending' = Receive(req)
                 /\ UNCHANGED <<gameMode, error, toastMessage, menuVars,
                                artistCandidates, currentArtist,
                                showQuitConfirm, roundVars, playedIds,
                                lossReason, score>>
            ELSE /\ playedIds' = <<>>
                 /\ pending' = Receive(req) (+)
                       SetToBag({[req EXCEPT !.stage = 2, !.played = <<>>]})
                 /\ UNCHANGED <<status, gameMode, loading, error, toastMessage,
                                menuVars, artistCandidates, currentArtist,
                                showQuitConfirm, roundVars, lossReason, score>>
       ELSE LoadFailed(req, "No music found for this artist")
    /\ UNCHANGED loads

\* the gateway answered an item
loadRoundItem(req, id) ==
    /\ ~TimeUpDue
    /\ BagIn(req, pending) /\ req.kind = "load"
    /\ id \in Available(Pool(req.artist, req.diff), req.played)
    /\ IF ~ItemOf(id).cover
       THEN LoadFailed(req, "No music found for this artist")
       ELSE /\ targetAlbum' = Some([id |-> id, albumName |-> ItemOf(id).name])
            /\ playedIds' = Append(playedIds, id)
            /\ guessesUsed' = 0
            /\ pixelFactor' = STARTING_PIXELATION
            /\ lastWrongGuess' = None
            /\ hintLevel' = "NONE"
            /\ timeLeft' = IF req.timer THEN TIMER_SETTINGS[req.diff] ELSE 0
            /\ status' = "PLAYING"
            /\ loading' = FALSE
            /\ pending' = Receive(req)
            /\ UNCHANGED <<gameMode, error, toastMessage, menuVars,
                           artistCandidates, currentArtist, showQuitConfirm,
                           lossReason, score>>
    /\ UNCHANGED loads

nextRound ==
    /\ status \in {"WON", "LOST"} /\ RoundShown /\ CanClick
    /\ IF gameMode = "RANDOM"
       THEN /\ RandomStart
            /\ UNCHANGED <<status, gameMode, error, toastMessage, menuVars,
                           artistCandidates, currentArtist, showQuitConfirm,
                           roundVars, playedIds, lossReason, score>>
       ELSE IF currentArtist # Null
       THEN /\ loadRound(currentArtist, playedIds, difficulty, gameMode,
                         enableTimer, pending)
            /\ UNCHANGED <<status, gameMode, toastMessage, menuVars,
                           currentArtist, showQuitConfirm, roundVars,
                           playedIds, score>>
       ELSE /\ status' = "MENU"
            /\ UNCHANGED <<gameMode, loading, error, toastMessage, menuVars,
                           artistCandidates, currentArtist, showQuitConfirm,
                           roundVars, playedIds, lossReason, score, pending>>
    /\ loads' = IF gameMode = "RANDOM" \/ currentArtist # Null THEN loads + 1 ELSE loads

----------------------------------------------------------------------------
(* Round *)

Max(a, b) == IF a >= b THEN a ELSE b

\* variant: no multiplier
DifficultyMultiTwice_Flat(diff) == 2

\* twice the difficulty multiplier (1, 1.5, 2)
DifficultyMultiTwice(diff) ==
    IF diff = "EASY" THEN 2 ELSE IF diff = "MEDIUM" THEN 3 ELSE 4

\* basePoints of handleWin
BasePoints(used, timer, left) ==
    Max(100, 1000 - (used * 200)) + (IF timer /\ left > 0 THEN left * 10 ELSE 0)

\* Math.floor(s + basePoints * difficultyMulti)
ScoreAfterWin(s, used, diff, timer, left) ==
    ((2 * s) + (BasePoints(used, timer, left) * DifficultyMultiTwice(diff))) \div 2

\* the points the WON overlay prints: a figure per difficulty and, with the
\* timer enabled and time remaining, the speed bonus
ShownPoints(diff) ==
    IF diff = "EASY" THEN 100 ELSE IF diff = "MEDIUM" THEN 150 ELSE 200

ShownSpeedBonus(timer, left) == IF timer /\ left > 0 THEN left * 10 ELSE 0

\* variant: the winning guess is counted
handleWin_Counted ==
    /\ pixelFactor' = 1
    /\ status' = "WON"
    /\ score' = ScoreAfterWin(score, guessesUsed, difficulty, enableTimer, timeLeft)
    /\ guessesUsed' = guessesUsed + 1
    /\ UNCHANGED <<lastWrongGuess, timeLeft, lossReason>>

handleWin ==
    /\ pixelFactor' = 1
    /\ status' = "WON"
    /\ score' = ScoreAfterWin(score, guessesUsed, difficulty, enableTimer, timeLeft)
    /\ UNCHANGED <<guessesUsed, lastWrongGuess, timeLeft, lossReason>>

\* Math.floor(STARTING_PIXELATION / MAX_GUESSES)
PixelStep == STARTING_PIXELATION \div MAX_GUESSES

\* variant: the step of a round of three guesses
PixelAfterWrongGuess_Thirds(prev) ==
    Max(MIN_PIXELATION, prev - (STARTING_PIXELATION \div 3) - 1)

\* variant: the step is added instead of taken away
PixelAfterWrongGuess_Up(prev) == Max(MIN_PIXELATION, prev + PixelStep + 1)

PixelAfterWrongGuess(prev) == Max(MIN_PIXELATION, prev - PixelStep - 1)

\* variant: the round ends one guess late
OutOfGuesses_Late(newUsed) == newUsed > MAX_GUESSES

OutOfGuesses(newUsed) == newUsed >= MAX_GUESSES

\* variant: a wrong guess costs points
handleWrongGuess_Penalty(text) ==
    /\ guessesUsed' = guessesUsed + 1
    /\ lastWrongGuess' = Some(text)
    /\ timeLeft' = IF enableTimer THEN TIMER_SETTINGS[difficulty] ELSE timeLeft
    /\ IF OutOfGuesses(guessesUsed + 1)
       THEN /\ pixelFactor' = 1
            /\ lossReason' = "OUT_OF_GUESSES"
            /\ status' = "LOST"
       ELSE /\ pixelFactor' = PixelAfterWrongGuess(pixelFactor)
            /\ UNCHANGED <<lossReason, status>>
    /\ score' = Max(0, score - 10)

\* guessInput, the content of the guess field, is the text the handler is
\* given: the field is read by submitGuess and handleWrongGuess alone
handleWrongGuess(text) ==
    /\ guessesUsed' = guessesUsed + 1
    /\ lastWrongGuess' = Some(text)
    /\ timeLeft' = IF enableTimer THEN TIMER_SETTINGS[difficulty] ELSE timeLeft
    /\ IF OutOfGuesses(guessesUsed + 1)
       THEN /\ pixelFactor' = 1
            /\ lossReason' = "OUT_OF_GUESSES"
            /\ status' = "LOST"
       ELSE /\ pixelFactor' = PixelAfterWrongGuess(pixelFactor)
            /\ UNCHANGED <<lossReason, status>>
    /\ UNCHANGED score

\* variant: the field is not trimmed
IsBlank_Untrimmed(text) == text = <<>>

\* !guessInput.trim()
IsBlank(text) == Trim(text) = <<>>

\* variant: the empty token is compared like any other
EmptyTokenRejected_Never(normalizedGuess, normalizedTarget) == FALSE

\* the empty token is no guess at a title that has a token
EmptyTokenRejected(normalizedGuess, normalizedTarget) ==
    Len(normalizedGuess) = 0 /\ Len(normalizedTarget) > 0

IsMatch(normalizedGuess, normalizedTarget) == normalizedGuess = normalizedTarget

\* Enter in the guess field, or the Guess button, with text in the field

\* variant: the guess field stays on the page after the round has ended
submitGuess_AfterEnd(text) ==
    /\ status \in {"PLAYING", "WON", "LOST"} /\ RoundShown /\ CanType
    /\ IF IsBlank(text)
       THEN UNCHANGED <<status, guessesUsed, pixelFactor, lastWrongGuess,
                        timeLeft, lossReason, score>>
       ELSE LET normalizedGuess == normalizeString(text)
                normalizedTarget == normalizeString(targetAlbum[1].albumName)
            IN  IF EmptyTokenRejected(normalizedGuess, normalizedTarget)
                THEN UNCHANGED <<status, guessesUsed, pixelFactor,
                                 lastWrongGuess, timeLeft, lossReason, score>>
                ELSE IF IsMatch(normalizedGuess, normalizedTarget)
                THEN handleWin
                ELSE handleWrongGuess(text)
    /\ UNCHANGED <<gameMode, loading, error, toastMessage, menuVars,
                   artistCandidates, currentArtist, showQuitConfirm,
                   targetAlbum, hintLevel, playedIds, pending>>
    /\ UNCHANGED loads

submitGuess(text) ==
    /\ status = "PLAYING" /\ RoundShown /\ CanType
    /\ IF IsBlank(text)
       THEN UNCHANGED <<status, guessesUsed, pixelFactor, lastWrongGuess,
                        timeLeft, lossReason, score>>
       ELSE LET normalizedGuess == normalizeString(text)
                normalizedTarget == normalizeString(targetAlbum[1].albumName)
            IN  IF EmptyTokenRejected(normalizedGuess, normalizedTarget)
                THEN UNCHANGED <<status, guessesUsed, pixelFactor,
                                 lastWrongGuess, timeLeft, lossReason, score>>
                ELSE IF IsMatch(normalizedGuess, normalizedTarget)
                THEN handleWin
                ELSE handleWrongGuess(text)
    /\ UNCHANGED <<gameMode, loading, error, toastMessage, menuVars,
                   artistCandidates, currentArtist, showQuitConfirm,
                   targetAlbum, hintLevel, playedIds, pending>>
    /\ UNCHANGED loads

showToast(msg) == toastMessage' = msg

\* variants: the cost is not compared with the score
CanAfford_Always(cost) == TRUE
CanAfford_Positive(cost) == score > 0

CanAfford(cost) == score >= cost


\* variant: the skip counted as a guess
handleSkip_Counted ==
    /\ status = "PLAYING" /\ RoundShown /\ CanClick
    /\ IF ~CanAfford(SKIP_COST)
       THEN /\ showToast(SkipToast)
            /\ UNCHANGED <<status, pixelFactor, lossReason, score>>
       ELSE /\ pixelFactor' = 1
            /\ lossReason' = "SKIP"
            /\ status' = "LOST"
            /\ score' = Max(0, score - SKIP_COST)
            /\ UNCHANGED toastMessage
    /\ UNCHANGED <<gameMode, loading, error, menuVars, artistCandidates,
                   currentArtist, showQuitConfirm, targetAlbum,
                   lastWrongGuess, hintLevel, timeLeft,
                   playedIds, pending>>
    /\ guessesUsed' = IF CanAfford(SKIP_COST) THEN guessesUsed + 1 ELSE guessesUsed
    /\ UNCHANGED loads

handleSkip ==
    /\ status = "PLAYING" /\ RoundShown /\ CanClick
    /\ IF ~CanAfford(SKIP_COST)
       THEN /\ showToast(SkipToast)
            /\ UNCHANGED <<status, pixelFactor, lossReason, score>>
       ELSE /\ pixelFactor' = 1
            /\ lossReason' = "SKIP"
            /\ status' = "LOST"
            /\ score' = Max(0, score - SKIP_COST)
            /\ UNCHANGED toastMessage
    /\ UNCHANGED <<gameMode, loading, error, menuVars, artistCandidates,
                   currentArtist, showQuitConfirm, targetAlbum,
                   guessesUsed, lastWrongGuess, hintLevel, timeLeft,
                   playedIds, pending>>
    /\ UNCHANGED loads

\* variant: the first hint goes to the last level
NextHintLevel_Last(level) == "FIRST_WORD"

NextHintLevel(level) ==
    IF level = "NONE" THEN "MASKED"
    ELSE IF level = "MASKED" THEN "FIRST_WORD" ELSE level

\* variant: the hint button is never disabled
HintDisabled_Never == FALSE

\* the hint button is disabled at the last level
HintDisabled == hintLevel = "FIRST_WORD"

\* variant: a hint is free
handleHint_Free ==
    /\ status = "PLAYING" /\ RoundShown /\ CanClick
    /\ IF HintDisabled
       THEN UNCHANGED <<toastMessage, hintLevel, score>>
       ELSE IF ~CanAfford(HINT_COST)
       THEN /\ showToast(HintToast)
            /\ UNCHANGED <<hintLevel, score>>
       ELSE /\ hintLevel' = NextHintLevel(hintLevel)
            /\ UNCHANGED <<toastMessage, score>>
    /\ UNCHANGED <<status, gameMode, loading, error, menuVars,
                   artistCandidates, currentArtist, showQuitConfirm,
                   targetAlbum, guessesUsed, pixelFactor,
                   lastWrongGuess, timeLeft, playedIds, lossReason, pending>>
    /\ UNCHANGED loads

handleHint ==
    /\ status = "PLAYING" /\ RoundShown /\ CanClick
    /\ IF HintDisabled
       THEN UNCHANGED <<toastMessage, hintLevel, score>>
       ELSE IF ~CanAfford(HINT_COST)
       THEN /\ showToast(HintToast)
            /\ UNCHANGED <<hintLevel, score>>
       ELSE /\ hintLevel' = NextHintLevel(hintLevel)
            /\ score' = Max(0, score - HINT_COST)
            /\ UNCHANGED toastMessage
    /\ UNCHANGED <<status, gameMode, loading, error, menuVars,
                   artistCandidates, currentArtist, showQuitConfirm,
                   targetAlbum, guessesUsed, pixelFactor,
                   lastWrongGuess, timeLeft, playedIds, lossReason, pending>>
    /\ UNCHANGED loads

\* variant: the interval is not cleared when the round ends
Tick_Stale ==
    /\ enableTimer /\ timeLeft > 0
    /\ timeLeft' = Max(0, timeLeft - 1)
    /\ UNCHANGED <<status, gameMode, loading, error, toastMessage, menuVars,
                   artistCandidates, currentArtist, showQuitConfirm,
                   targetAlbum, guessesUsed, pixelFactor,
                   lastWrongGuess, hintLevel, playedIds, lossReason, score,
                   pending>>
    /\ UNCHANGED loads

\* the one-second interval of the timer effect
Tick ==
    /\ status = "PLAYING" /\ enableTimer /\ timeLeft > 0
    /\ timeLeft' = Max(0, timeLeft - 1)
    /\ UNCHANGED <<status, gameMode, loading, error, toastMessage, menuVars,
                   artistCandidates, currentArtist, showQuitConfirm,
                   targetAlbum, guessesUsed, pixelFactor,
                   lastWrongGuess, hintLevel, playedIds, lossReason, score,
                   pending>>
    /\ UNCHANGED loads

\* the time-up effect
handleTimeUp ==
    /\ TimeUpDue
    /\ pixelFactor' = 1
    /\ lossReason' = "TIME_UP"
    /\ status' = "LOST"
    /\ UNCHANGED <<gameMode, loading, error, toastMessage, menuVars,
                   artistCandidates, currentArtist, showQuitConfirm,
                   targetAlbum, guessesUsed, lastWrongGuess,
                   hintLevel, timeLeft, playedIds, score, pending>>
    /\ UNCHANGED loads

\* the toast's three-second timeout
ToastTimeout ==
    /\ ~TimeUpDue
    /\ toastMessage # Null
    /\ toastMessage' = Null
    /\ UNCHANGED <<status, gameMode, loading, error, menuVars,
                   artistCandidates, currentArtist, showQuitConfirm,
                   roundVars, playedIds, lossReason, score, pending>>
    /\ UNCHANGED loads

----------------------------------------------------------------------------
(* Quit *)

handleQuitRequest ==
    /\ status \notin {"MENU", "ALL_CLEARED"} /\ CanClick
    /\ showQuitConfirm' = TRUE
    /\ UNCHANGED <<status, gameMode, loading, error, toastMessage, menuVars,
                   artistCandidates, currentArtist, roundVars, playedIds,
                   lossReason, score, pending>>
    /\ UNCHANGED loads

cancelQuit ==
    /\ showQuitConfirm /\ ~TimeUpDue
    /\ showQuitConfirm' = FALSE
    /\ UNCHANGED <<status, gameMode, loading, error, toastMessage, menuVars,
                   artistCandidates, currentArtist, roundVars, playedIds,
                   lossReason, score, pending>>
    /\ UNCHANGED loads

\* variant: the played items survive the quit
QuitToMenu_KeepsPlayed ==
    /\ status' = "MENU"
    /\ searchInput' = <<>>
    /\ artistCandidates' = <<>>
    /\ currentArtist' = Null
    /\ showQuitConfirm' = FALSE
    /\ UNCHANGED <<gameMode, loading, error, toastMessage, difficulty,
                   enableTimer, roundVars, lossReason, score, pending,
                   playedIds>>

QuitToMenu ==
    /\ status' = "MENU"
    /\ searchInput' = <<>>
    /\ artistCandidates' = <<>>
    /\ currentArtist' = Null
    /\ playedIds' = <<>>
    /\ showQuitConfirm' = FALSE
    /\ UNCHANGED <<gameMode, loading, error, toastMessage, difficulty,
                   enableTimer, roundVars, lossReason, score, pending>>

\* Quit in the dialog, or Back to Menu on the all-cleared screen
confirmQuit ==
    /\ ~TimeUpDue
    /\ showQuitConfirm \/ (status = "ALL_CLEARED" /\ ~Covered)
    /\ QuitToMenu
    /\ UNCHANGED loads

\* the logo
forceQuitToMenu ==
    /\ CanClick
    /\ QuitToMenu
    /\ UNCHANGED loads

----------------------------------------------------------------------------

(* Next-state relations.  A bound on the requests in flight or on the round
   loads begun is a guard here, not in the handlers. *)

\* one request at a time
Idle == InFlight = 0

\* the player without the timer and without hints: menu, search, rounds, quit
Next ==
    \/ \E level \in Difficulty : SetDifficulty(level)
    \/ \E text \in SearchTexts : SetSearchInput(text)
    \/ Idle /\ handleSearch
    \/ handleSearchDone
    \/ \E artist \in Artists : Idle /\ loads < MaxLoads /\ handleSelectArtist(artist)
    \/ Idle /\ loads < MaxLoads /\ handleRandomStart
    \/ \E req \in BagToSet(pending) : handleRandomFailed(req)
    \/ \E req \in BagToSet(pending), artist \in Artists : handleRandomFound(req, artist)
    \/ \E req \in BagToSet(pending) : loadRoundThrew(req)
    \/ \E req \in BagToSet(pending) : loadRoundNull(req)
    \/ \E req \in BagToSet(pending), id \in {it.id : it \in Items} : loadRoundItem(req, id)
    \/ Idle /\ loads < MaxLoads /\ nextRound
    \/ \E text \in GuessTexts : submitGuess(text)
    \/ handleSkip
    \/ ToastTimeout
    \/ handleQuitRequest
    \/ cancelQuit
    \/ confirmQuit
    \/ forceQuitToMenu

Spec == Init /\ [][Next]_vars

\* the player without the timer, round after round of one random start
NextRound ==
    \/ \E level \in Difficulty : SetDifficulty(level)
    \/ Idle /\ loads < MaxLoads /\ handleRandomStart
    \/ \E req \in BagToSet(pending) : handleRandomFailed(req)
    \/ \E req \in BagToSet(pending), artist \in Artists : handleRandomFound(req, artist)
    \/ \E req \in BagToSet(pending) : loadRoundThrew(req)
    \/ \E req \in BagToSet(pending) : loadRoundNull(req)
    \/ \E req \in BagToSet(pending), id \in {it.id : it \in Items} : loadRoundItem(req, id)
    \/ Idle /\ loads < MaxLoads /\ nextRound
    \/ \E text \in GuessTexts : submitGuess(text)
    \/ handleSkip
    \/ handleHint
    \/ ToastTimeout

SpecRound == Init /\ [][NextRound]_vars

\* the player with the timer: the rounds of one random start
NextTimed ==
    \/ \E level \in Difficulty : SetDifficulty(level)
    \/ ToggleTimer
    \/ Idle /\ loads < MaxTimedLoads /\ handleRandomStart
    \/ \E req \in BagToSet(pending) : handleRandomFailed(req)
    \/ \E req \in BagToSet(pending), artist \in Artists : handleRandomFound(req, artist)
    \/ \E req \in BagToSet(pending) : loadRoundThrew(req)
    \/ \E req \in BagToSet(pending) : loadRoundNull(req)
    \/ \E req \in BagToSet(pending), id \in {it.id : it \in Items} : loadRoundItem(req, id)
    \/ \E text \in GuessTexts : submitGuess(text)
    \/ handleSkip
    \/ handleHint
    \/ Tick
    \/ handleTimeUp
    \/ ToastTimeout

SpecTimed == Init /\ [][NextTimed]_vars

\* the interval fires every second while the round runs, and the time-up
\* effect runs after the commit that brought the time to 0
SpecTimedFair == SpecTimed /\ WF_vars(Tick) /\ WF_vars(handleTimeUp)

\* every handler and effect: the menu is used before the first round, the
\* player acts in the first round and may go on to a next one, which the
\* gateway and the effects then carry through
NextAll ==
    \/ \E level \in Difficulty : loads < MaxTimedLoads /\ SetDifficulty(level)
    \/ loads < MaxTimedLoads /\ ToggleTimer
    \/ \E text \in SearchTexts : loads < MaxTimedLoads /\ SetSearchInput(text)
    \/ Idle /\ loads < MaxTimedLoads /\ handleSearch
    \/ handleSearchDone
    \/ \E artist \in Artists : Idle /\ loads < MaxTimedLoads /\ handleSelectArtist(artist)
    \/ Idle /\ loads < MaxTimedLoads /\ handleRandomStart
    \/ \E req \in BagToSet(pending) : handleRandomFailed(req)
    \/ \E req \in BagToSet(pending), artist \in Artists : handleRandomFound(req, artist)
    \/ \E req \in BagToSet(pending) : loadRoundThrew(req)
    \/ \E req \in BagToSet(pending) : loadRoundNull(req)
    \/ \E req \in BagToSet(pending), id \in {it.id : it \in Items} : loadRoundItem(req, id)
    \/ Idle /\ loads < MaxLoads /\ nextRound
    \/ \E text \in GuessTexts : loads <= MaxTimedLoads /\ submitGuess(text)
    \/ loads <= MaxTimedLoads /\ handleSkip
    \/ loads <= MaxTimedLoads /\ handleHint
    \/ Tick
    \/ handleTimeUp
    \/ ToastTimeout
    \/ loads <= MaxTimedLoads /\ handleQuitRequest
    \/ loads <= MaxTimedLoads /\ cancelQuit
    \/ loads <= MaxTimedLoads /\ confirmQuit
    \/ loads <= MaxTimedLoads /\ forceQuitToMenu

SpecAll == Init /\ [][NextAll]_vars

\* the player who presses Enter in the search field under the loading
\* overlay: a search is then in flight beside another request, and its
\* answer takes the overlay away while that request is still out
NextAsync ==
    \/ \E text \in SearchTexts : loads < MaxTimedLoads /\ SetSearchInput(text)
    \/ InFlight < MaxInFlight /\ loads < MaxTimedLoads /\ handleSearch
    \/ handleSearchDone
    \/ \E artist \in Artists :
          InFlight < MaxInFlight /\ loads < MaxTimedLoads /\ handleSelectArtist(artist)
    \/ \E req \in BagToSet(pending) : loadRoundThrew(req)
    \/ \E req \in BagToSet(pending) : loadRoundNull(req)
    \/ \E req \in BagToSet(pending), id \in {it.id : it \in Items} : loadRoundItem(req, id)
    \/ InFlight < MaxInFlight /\ loads < MaxLoads /\ nextRound
    \/ \E text \in GuessTexts : submitGuess(text)
    \/ handleQuitRequest
    \/ cancelQuit
    \/ confirmQuit
    \/ forceQuitToMenu

SpecAsync == Init /\ [][NextAsync]_vars

\* the player who changes the menu's settings while a load is in flight,
\* the overlay having been taken away by the answer to a second search
NextStale ==
    \/ \E level \in Difficulty : SetDifficulty(level)
    \/ ToggleTimer
    \/ \E text \in SearchTexts : loads < MaxTimedLoads /\ SetSearchInput(text)
    \/ InFlight < MaxInFlight /\ loads < MaxTimedLoads /\ handleSearch
    \/ handleSearchDone
    \/ \E artist \in Artists :
          InFlight < MaxInFlight /\ loads < MaxTimedLoads /\ handleSelectArtist(artist)
    \/ \E req \in BagToSet(pending) : loadRoundThrew(req)
    \/ \E req \in BagToSet(pending) : loadRoundNull(req)
    \/ \E req \in BagToSet(pending), id \in {it.id : it \in Items} : loadRoundItem(req, id)
    \/ \E text \in GuessTexts : submitGuess(text)
    \/ Tick
    \/ handleTimeUp

SpecStale == Init /\ [][NextStale]_vars

\* every text of up to MaxTextLen characters of a small alphabet, and the
\* titles of the catalog
NormChars == {"a", "A", " ", "!", "(", "-"}
NormTexts ==
    UNION {[1..n -> NormChars] : n \in 0..MaxTextLen}
        \cup {TxtThriller, TxtThrillerEd, TxtAbbeyLower, TxtAbbeyRoad}

\* names of the item a round presents
NormNames == {TxtThrillerEd, TxtParens, <<"A", "a">>, <<"a", "-", "A">>}

\* a round that has just been loaded for a selected artist, its item named
\* by any of NormNames
NormInit ==
    /\ status = "PLAYING"
    /\ gameMode = "SPECIFIC"
    /\ difficulty = "MEDIUM"
    /\ loading = FALSE
    /\ error = Null
    /\ toastMessage = Null
    /\ searchInput = <<>>
    /\ artistCandidates = <<>>
    /\ currentArtist = "a1"
    /\ showQuitConfirm = FALSE
    /\ \E name \in NormNames : targetAlbum = Some([id |-> "t1", albumName |-> name])
    /\ guessesUsed = 0
    /\ pixelFactor = STARTING_PIXELATION
    /\ lastWrongGuess = None
    /\ playedIds = <<"t1">>
    /\ lossReason = Null
    /\ hintLevel = "NONE"
    /\ enableTimer = FALSE
    /\ timeLeft = 0
    /\ score \in InitScores
    /\ pending = EmptyBag
    /\ loads = 1

\* the player types any text and submits it
NextNorm == \E text \in NormTexts : submitGuess(text)

SpecNorm == NormInit /\ [][NextNorm]_vars

TypeOK ==
    /\ status \in GameStatus
    /\ gameMode \in GameMode
    /\ difficulty \in Difficulty
    /\ hintLevel \in HintLevel
    /\ lossReason \in LossReason \cup {Null}
    /\ guessesUsed \in 0..MAX_GUESSES
    /\ timeLeft \in 0..30
    /\ score \in Int

----------------------------------------------------------------------------
(* Claims *)

AllWhitespace(text) == \A i \in 1..Len(text) : text[i] = " "

RoundStatus == {"PLAYING", "WON", "LOST"}

\* C1: the target item is non-null if and only if status is PLAYING, WON or
\* LOST; it is null in MENU (also after a quit or a failed load) and in
\* ALL_CLEARED.
C1_TargetIffRound == (targetAlbum # None) <=> (status \in RoundStatus)

\* C2: the wrong guess that brings guesses-used to MAX_GUESSES ends the round
\* LOST for OUT_OF_GUESSES with pixelation 1, with the timer on or off; a
\* round lost for OUT_OF_GUESSES has used MAX_GUESSES guesses.
C2_LostAfterMaxGuesses ==
    /\ [](status = "LOST" /\ lossReason = "OUT_OF_GUESSES" => guessesUsed = 4)
    /\ [][guessesUsed' = 4 /\ guessesUsed # 4 =>
             /\ status' = "LOST"
             /\ lossReason' = "OUT_OF_GUESSES"
             /\ pixelFactor' = 1]_vars

C2_Witness ==
    /\ status = "LOST" /\ lossReason = "OUT_OF_GUESSES"
    /\ guessesUsed = 4 /\ pixelFactor = 1
    /\ enableTimer /\ difficulty = "HARD"

\* C3: a wrong guess never raises the pixelation factor, and the factor is 1
\* whenever status is WON or LOST.
C3_PixelationReveals ==
    /\ [](status \in {"WON", "LOST"} => pixelFactor = 1)
    /\ [][status = "PLAYING" /\ guessesUsed' = guessesUsed + 1 =>
             pixelFactor' <= pixelFactor]_vars

C3_Witness ==
    /\ status = "LOST" /\ lossReason = "TIME_UP"
    /\ guessesUsed = 2 /\ pixelFactor = 1

\* C4: submitting empty or whitespace-only text changes neither guesses-used,
\* pixelation, status, timer, last wrong guess nor score.
C4_BlankGuessNoOp ==
    \A text \in GuessTexts :
        AllWhitespace(text) =>
            ~ ENABLED (/\ submitGuess(text)
                       /\ ~ UNCHANGED <<guessesUsed, pixelFactor, status,
                                        timeLeft, lastWrongGuess, score>>)

C4_Witness ==
    /\ ENABLED submitGuess(TxtBlank)
    /\ ENABLED submitGuess(TxtEmpty)
    /\ enableTimer /\ timeLeft = 3 /\ guessesUsed = 1

\* the guess field takes a submission
CanSubmit == status = "PLAYING" /\ RoundShown /\ CanType

TargetToken == normalizeString(targetAlbum[1].albumName)

\* the claim's condition of a win
C5_Wins(text) ==
    /\ normalizeString(text) = TargetToken
    /\ ~(normalizeString(text) = <<>> /\ TargetToken # <<>>)

\* C5 as claimed: a submitted guess moves the round to WON exactly when its
\* token equals the target's (the empty token never winning against a
\* non-empty one).
C5_WinIffTokensEqual ==
    CanSubmit =>
        \A text \in GuessTexts :
            C5_Wins(text) <=> ENABLED (submitGuess(text) /\ status' = "WON")

\* C5 amended: a submitted guess whose raw input is not blank moves the round
\* to WON exactly when its token equals the target's (the empty token never
\* winning against a non-empty one), a blank submission never does, and a
\* win leaves guesses-used as it was.
C5_WinIffTokensEqualNonBlank ==
    /\ [](CanSubmit =>
            \A text \in GuessTexts :
                (~AllWhitespace(text) /\ C5_Wins(text))
                    <=> ENABLED (submitGuess(text) /\ status' = "WON"))
    /\ [][status = "PLAYING" /\ status' = "WON" =>
             guessesUsed' = guessesUsed]_vars

C5_Witness ==
    /\ status = "WON"
    /\ targetAlbum = Some([id |-> "t3", albumName |-> TxtParens])
    /\ guessesUsed = 1

\* the award the claim states: floor(max(100, 1000 - 200 * used) * m)
C6_Award(used, diff) ==
    LET base == IF 1000 - 200 * used > 100 THEN 1000 - 200 * used ELSE 100
    IN  CASE diff = "EASY" -> base
          [] diff = "MEDIUM" -> (base * 15) \div 10
          [] diff = "HARD" -> base * 2

\* C6: a win with the timer disabled adds floor(max(100, 1000 - 200 *
\* guessesUsed) * m) to the score, m = 1, 1.5, 2 for EASY, MEDIUM, HARD:
\* 1500 for a first-attempt MEDIUM win, less for every further guess used,
\* more for a harder difficulty.
C6_UntimedAward ==
    /\ [][status = "PLAYING" /\ status' = "WON" /\ ~enableTimer =>
             /\ score' - score = C6_Award(guessesUsed, difficulty)
             /\ (difficulty = "MEDIUM" /\ guessesUsed = 0 => score' - score = 1500)
             /\ \A more \in (guessesUsed + 1)..(MAX_GUESSES - 1) :
                   ScoreAfterWin(score, more, difficulty, enableTimer, timeLeft) < score'
             /\ (difficulty # "HARD" =>
                   ScoreAfterWin(score, guessesUsed,
                                 IF difficulty = "EASY" THEN "MEDIUM" ELSE "HARD",
                                 enableTimer, timeLeft) > score')]_vars

C6_Witness ==
    /\ status = "WON" /\ ~enableTimer /\ difficulty = "MEDIUM"
    /\ targetAlbum = Some([id |-> "t1", albumName |-> TxtAbbeyRoad])
    /\ guessesUsed = 0 /\ score = 1540

\* C7: a skip in PLAYING with score below 50 is rejected: score, status,
\* pixelation, guesses-used and loss reason stay, a warning is raised.
C7_SkipRejected ==
    [][handleSkip /\ score < 50 =>
          /\ UNCHANGED <<score, status, pixelFactor, guessesUsed, lossReason>>
          /\ toastMessage' = SkipToast]_vars

C7_Witness ==
    /\ status = "PLAYING" /\ score = 40 /\ toastMessage = SkipToast
    /\ lossReason = Null

\* C8: the score is a non-negative integer in every state, and it falls
\* only by a hint's cost from a score of at least 25 or by a skip's cost
\* from a score of at least 50.
C8_ScoreNonNegative ==
    /\ [](score \in Nat)
    /\ [][score' < score =>
             \/ score >= 25 /\ score' = score - 25 /\ hintLevel' # hintLevel
             \/ score >= 50 /\ score' = score - 50 /\ lossReason' = "SKIP"]_vars

C8_Witness ==
    /\ score = 10 /\ hintLevel = "FIRST_WORD" /\ status = "PLAYING"
    /\ toastMessage = SkipToast

\* C9: the hint level moves only one step forward along NONE, MASKED,
\* FIRST_WORD, by an accepted hint request; only the load of a round moves
\* it back, to NONE.
C9_HintForward ==
    [][hintLevel' # hintLevel =>
          \/ /\ handleHint /\ score' = score - 25
             /\ <<hintLevel, hintLevel'>> \in
                   {<<"NONE", "MASKED">>, <<"MASKED", "FIRST_WORD">>}
          \/ /\ hintLevel' = "NONE"
             /\ \E req \in BagToSet(pending), id \in {it.id : it \in Items} :
                   loadRoundItem(req, id)]_vars

C9_Witness ==
    /\ loads = 2 /\ status = "PLAYING" /\ hintLevel = "MASKED"
    /\ guessesUsed = 0

\* C10: a hint requested at level FIRST_WORD changes neither the hint level
\* nor the score.
C10_HintAtLastLevelNoOp ==
    hintLevel = "FIRST_WORD" =>
        ~ ENABLED (handleHint /\ ~ UNCHANGED <<hintLevel, score>>)

C10_Witness ==
    /\ hintLevel = "FIRST_WORD" /\ score >= 25
    /\ ENABLED handleHint

\* C11: a hint requested with a score below 25 leaves hint level and score
\* as they were and raises the warning; a hint requested with a score of at
\* least 25 at NONE or MASKED moves the level one step forward and takes
\* exactly 25 from the score; every advance of the level costs 25.
C11_HintCost ==
    /\ [][handleHint /\ score < 25 =>
             /\ UNCHANGED <<hintLevel, score>>
             /\ (hintLevel # "FIRST_WORD" => toastMessage' = HintToast)]_vars
    /\ [][handleHint /\ score >= 25 /\ hintLevel \in {"NONE", "MASKED"} =>
             /\ hintLevel' = (IF hintLevel = "NONE" THEN "MASKED" ELSE "FIRST_WORD")
             /\ score' = score - 25]_vars
    /\ [][hintLevel' \in {"MASKED", "FIRST_WORD"} /\ hintLevel' # hintLevel =>
             score' = score - 25]_vars

C11_Witness ==
    /\ status = "PLAYING" /\ hintLevel = "MASKED" /\ score = 15
    /\ toastMessage = HintToast

\* the allotment the claim states for a difficulty
C12_Allotment(diff) ==
    CASE diff = "EASY" -> 30 [] diff = "MEDIUM" -> 10 [] diff = "HARD" -> 5

\* the round is over, or the player has guessed or skipped
C12_Acted == status = "WON" \/ guessesUsed > 0 \/ lossReason \in {"SKIP", "OUT_OF_GUESSES"}

C13_CountdownOnlyWhilePlaying ==
    /\ [](status # "PLAYING" \/ ~enableTimer =>
             ~ ENABLED Tick /\ ~ ENABLED handleTimeUp)
    /\ [](status = "LOST" /\ lossReason = "TIME_UP" => enableTimer)
    /\ [][timeLeft' < timeLeft => status = "PLAYING" /\ enableTimer]_vars
    /\ [][status = "PLAYING" /\ status' = "LOST" /\ lossReason' = "TIME_UP" =>
             enableTimer]_vars
    /\ [][(status \in {"WON", "LOST"} /\ status' = status) =>
             (timeLeft' = timeLeft)]_vars

C13_Witness ==
    /\ status = "WON" /\ enableTimer /\ timeLeft = 7 /\ difficulty = "MEDIUM"

\* C14: a step of the player that takes a round (PLAYING, WON, LOST) to
\* MENU, no response of the gateway being received in it, is taken with the
\* quit dialog shown: it is the dialog's confirmation.
C14_QuitConfirmed ==
    [][(status \in RoundStatus) /\ status' = "MENU" /\ pending' = pending =>
          showQuitConfirm]_vars

\* C15: a quit to MENU, by the dialog, the all-cleared screen or the logo,
\* leaves the current artist null, the search results empty and the played
\* ids empty, and the score as it was.
C15_QuitClears ==
    [][confirmQuit \/ forceQuitToMenu =>
          /\ status' = "MENU"
          /\ currentArtist' = Null
          /\ artistCandidates' = <<>>
          /\ playedIds' = <<>>
          /\ score' = score]_vars

C15_Witness ==
    /\ status = "MENU" /\ score = 1540 /\ targetAlbum # None
    /\ currentArtist = Null /\ artistCandidates = <<>> /\ playedIds = <<>>
    /\ loads = 1 /\ InFlight = 0

\* C16: a step that changes the score is a win (PLAYING to WON, the score
\* rising), an accepted hint (the level advancing, 25 less) or an accepted
\* skip (LOST for SKIP, 50 less); a step that counts a wrong guess, ticks,
\* times out, loads, searches, toggles or quits leaves the score alone.
C16_ScoreWriters ==
    /\ [][score' # score =>
             \/ status = "PLAYING" /\ status' = "WON" /\ score' > score
             \/ /\ status = "PLAYING" /\ status' = "PLAYING"
                /\ hintLevel' # hintLevel /\ score' = score - 25
             \/ /\ status = "PLAYING" /\ status' = "LOST"
                /\ lossReason' = "SKIP" /\ score' = score - 50]_vars
    /\ [][\/ guessesUsed' # guessesUsed
          \/ timeLeft' # timeLeft
          \/ lossReason' \in {"TIME_UP", "OUT_OF_GUESSES"} /\ lossReason' # lossReason
          \/ pending' # pending
          \/ menuVars' # menuVars
          \/ status' = "MENU" /\ status # "MENU"
          => score' = score]_vars

C16_Witness ==
    /\ status = "LOST" /\ lossReason = "TIME_UP" /\ guessesUsed = 1
    /\ hintLevel = "MASKED" /\ score = 15

\* C17: the step in which a round load fails (a request is answered and the
\* answer starts no round and clears no pool) ends with status MENU, an
\* error message and loading false, from MENU, WON or LOST, in either mode.
C17_FailedLoadToMenu ==
    [][InFlight' < InFlight /\ status' \notin {"PLAYING", "ALL_CLEARED"} =>
          status' = "MENU" /\ error' # Null /\ ~loading']_vars

\* C18: when the service lists nothing at all for the artist and difficulty
\* of a load that excludes nothing, the answer either is asked for again or
\* ends the load in MENU with an error message, never in ALL_CLEARED.
C18_EmptyPoolToMenu ==
    [][\A req \in BagToSet(pending) :
          (/\ req.kind = "load" /\ req.played = <<>>
           /\ Pool(req.artist, req.diff) = {}
           /\ loadRoundNull(req))
          => \/ InFlight' = InFlight /\ status' = status
             \/ status' = "MENU" /\ error' # Null]_vars

\* C19: the round that follows a finished round of the session does not
\* present that round's item again (an id belongs to one artist), unless
\* the artist's pool at the difficulty holds that item alone.
C19_NoRepeatedItem ==
    [][(status \in {"WON", "LOST"}) /\ status' = "PLAYING"
          /\ targetAlbum'[1].id = targetAlbum[1].id
          => Pool(currentArtist', difficulty') = {targetAlbum[1].id}]_vars

\* a load is in flight that the player has quit from: the quit took the
\* current artist away, which the start of the load had set
C20_QuitDuringLoad ==
    /\ status = "MENU" /\ currentArtist = Null
    /\ \E req \in BagToSet(pending) : req.kind = "load"

\* C20: the answer to a load the player has quit from is ignored: status
\* stays MENU, and target item, played ids and round progress stay as they
\* are.
C20_LateResponseIgnored ==
    [][C20_QuitDuringLoad /\ InFlight' < InFlight
          /\ (\E req \in BagToSet(pending) :
                 req.kind = "load" /\ pending' = Receive(req))
          => status' = "MENU" /\ UNCHANGED <<targetAlbum, playedIds, roundVars>>]_vars

\* the requests of round loads in flight: lookups and item requests
C21_LoadsInFlight ==
    BagCardinality([req \in {r \in BagToSet(pending) : r.kind \in {"load", "random"}}
                       |-> CopiesIn(req, pending)])

\* C21: at most one round load is in flight, and loading is true while one
\* is, so that no second one can be started.
C21_SingleFlight ==
    /\ C21_LoadsInFlight <= 1
    /\ (C21_LoadsInFlight > 0 => loading)

\* a text without its spaces and exclamation marks
C22_Squeeze(text) == SelectSeq(text, LAMBDA c : c \notin {" ", "!"})

\* a text with its letters in upper case
C22_Upper(text) == [i \in 1..Len(text) |-> IF text[i] = "a" THEN "A" ELSE text[i]]

\* the guess wins, is counted as wrong
C22_Win(text) == ENABLED (submitGuess(text) /\ status' = "WON")
C22_Wrong(text) == ENABLED (submitGuess(text) /\ guessesUsed' = guessesUsed + 1)

\* C22: the token of a token is that token; the token does not depend on
\* the case of the letters, on spaces and punctuation, nor on what follows
\* the first "(" or "-"; the anniversary edition of Thriller has the token
\* of "thriller"; a guess with a non-empty token wins, or is a wrong guess,
\* exactly when its token typed as the guess does, so that two guesses with
\* the same non-empty token both win or both are wrong guesses at a target.
C22_NormalizeEquivalence ==
    guessesUsed = 0 /\ status = "PLAYING" =>
        /\ normalizeString(TxtThrillerEd) = normalizeString(TxtThriller)
        /\ normalizeString(TxtThriller) = TxtThriller
        /\ \A text \in NormTexts :
              /\ normalizeString(normalizeString(text)) = normalizeString(text)
              /\ normalizeString(C22_Upper(text)) = normalizeString(text)
              /\ normalizeString(C22_Squeeze(text)) = normalizeString(text)
              /\ \A rest \in {<<>>, <<"a">>, <<"!", "A">>} :
                    /\ normalizeString(text \o <<"(">> \o rest) = normalizeString(text)
                    /\ normalizeString(text \o <<"-">> \o rest) = normalizeString(text)
        /\ \A g1 \in NormTexts : \A g2 \in {normalizeString(g1)} :
              g2 # <<>> => /\ C22_Win(g1) <=> C22_Win(g2)
                           /\ C22_Wrong(g1) <=> C22_Wrong(g2)

C22_Witness ==
    /\ status = "WON" /\ guessesUsed = 1
    /\ targetAlbum = Some([id |-> "t1", albumName |-> <<"A", "a">>])
    /\ lastWrongGuess = Some(<<"a", "!", " ">>)

\* submitting the text counts it as a wrong guess and records it
C23_Counted(text) ==
    /\ ENABLED submitGuess(text)
    /\ ~ ENABLED (submitGuess(text) /\ ~(/\ guessesUsed' = guessesUsed + 1
                                         /\ lastWrongGuess' = Some(text)))

\* C23 as claimed: a submitted guess that is not blank and whose token
\* differs from the target's, "!!!" included, adds one to guesses-used and
\* becomes the last wrong guess.
C23_WrongGuessCounted ==
    CanSubmit =>
        \A text \in GuessTexts :
            (~AllWhitespace(text) /\ normalizeString(text) # TargetToken)
                => C23_Counted(text)

\* C23 amended: a submitted guess that is not blank, whose token is not
\* empty and differs from the target's, adds one to guesses-used and becomes
\* the last wrong guess; a guess whose token is empty, "!!!" included, at a
\* target whose token is not, changes neither.
C23_WrongGuessCountedNonEmpty ==
    CanSubmit =>
        \A text \in GuessTexts :
            /\ (/\ ~AllWhitespace(text)
                /\ normalizeString(text) # <<>>
                /\ normalizeString(text) # TargetToken) => C23_Counted(text)
            /\ (normalizeString(text) = <<>> /\ TargetToken # <<>>) =>
                   ~ ENABLED (submitGuess(text)
                                /\ ~ UNCHANGED <<guessesUsed, lastWrongGuess, status>>)

C23_Witness ==
    /\ status = "PLAYING" /\ guessesUsed = 2
    /\ lastWrongGuess = Some(TxtThriller)
    /\ targetAlbum = Some([id |-> "t1", albumName |-> TxtAbbeyRoad])
    /\ ENABLED submitGuess(TxtPunct)

\* C24: status ALL_CLEARED is entered in a SPECIFIC session only: a load of
\* the random flow (gameMode RANDOM, set when the lookup found the artist)
\* never ends in it.
C24_AllClearedOnlySpecific ==
    [][status' = "ALL_CLEARED" /\ status # "ALL_CLEARED" =>
          gameMode' = "SPECIFIC"]_vars

\* C25: every step that brings the round to PLAYING leaves the round's
\* progress reset: no guess used, the starting pixelation, no hint, no wrong
\* guess remembered, no loss reason, and the remaining time at the allotment
\* of the difficulty when the timer is enabled and at 0 otherwise, so that a
\* timed round never starts with its time already up
C25_LoadResets ==
    [][(status # "PLAYING" /\ status' = "PLAYING")
         => /\ guessesUsed' = 0
            /\ pixelFactor' = 35
            /\ hintLevel' = "NONE"
            /\ lastWrongGuess' = None
            /\ lossReason' = Null
            /\ timeLeft' = IF enableTimer' THEN C12_Allotment(difficulty') ELSE 0
            /\ ~TimeUpDue']_vars

\* C26: with the timer enabled, a wrong guess that leaves the round in
\* PLAYING puts the remaining time back to the full allotment of the current
\* difficulty, and the remaining time is always between 0 and that allotment
C26_TimerWithinAllotment ==
    /\ [][(/\ status = "PLAYING" /\ enableTimer
           /\ guessesUsed' = guessesUsed + 1
           /\ status' = "PLAYING")
          => timeLeft' = C12_Allotment(difficulty)]_vars
    /\ [](timeLeft \in 0..C12_Allotment(difficulty))

\* C27: a skip in PLAYING with a score of at least 50 ends the round as LOST
\* with the loss reason SKIP, shows the cover unpixelated (pixelation 1),
\* takes exactly 50 points and leaves guesses-used and the hint level alone
C27_SkipAccepted ==
    status = "PLAYING" /\ score >= 50 =>
        ~ ENABLED (handleSkip /\
                   ~ (/\ status' = "LOST"
                      /\ lossReason' = "SKIP"
                      /\ pixelFactor' = 1
                      /\ score' = score - 50
                      /\ guessesUsed' = guessesUsed
                      /\ hintLevel' = hintLevel))

C27_Witness ==
    /\ status = "PLAYING" /\ score >= 50
    /\ guessesUsed > 0 /\ hintLevel # "NONE"
    /\ ENABLED handleSkip

\* C28: in every reachable state, the next round loading and the menu after
\* a quit included, the loss reason is set exactly when status is LOST, and
\* it is then one of OUT_OF_GUESSES, TIME_UP and SKIP
C28_LossReasonIffLost ==
    /\ lossReason # Null <=> status = "LOST"
    /\ lossReason \in {Null, "OUT_OF_GUESSES", "TIME_UP", "SKIP"}

\* C29: while status is PLAYING, guesses-used is between 0 and 3 and the
\* pixelation is max(4, 35 - 9 * guesses-used), one of 35, 26, 17 and 8, so
\* the cover is never shown unpixelated during play
C29_PixelSchedule ==
    status = "PLAYING" =>
        /\ guessesUsed \in 0..3
        /\ pixelFactor = (IF 35 - 9 * guessesUsed > 4
                          THEN 35 - 9 * guessesUsed ELSE 4)
        /\ pixelFactor \in {35, 26, 17, 8}
        /\ pixelFactor > 1

C29_Witness ==
    status = "PLAYING" /\ guessesUsed = 3 /\ pixelFactor = 8

\* C30: the points the win overlay shows, the figure of the difficulty plus
\* the speed bonus when the timer is enabled and time remains, are the points
\* the win added to the score
C30_ShownPointsAwarded ==
    [][status = "PLAYING" /\ status' = "WON" =>
          score' - score =
              ShownPoints(difficulty') + ShownSpeedBonus(enableTimer', timeLeft')]_vars

\* C31: a round awards points at most once: the score rises only on the step
\* that takes the round from PLAYING to WON, a round that has ended is played
\* again only through the answer of a round load, and once the round is WON
\* or LOST no guess, hint or skip changes score, guesses-used, pixelation or
\* status
C31_AwardedOnce ==
    /\ [][score' > score => status = "PLAYING" /\ status' = "WON"]_vars
    /\ [][status # "PLAYING" /\ status' = "PLAYING" =>
             \E req \in BagToSet(pending), id \in {it.id : it \in Items} :
                 loadRoundItem(req, id)]_vars
    /\ [](status \in {"WON", "LOST"} =>
             /\ \A text \in GuessTexts :
                   ~ ENABLED (submitGuess(text) /\
                              ~ UNCHANGED <<score, guessesUsed, pixelFactor, status>>)
             /\ ~ ENABLED (handleHint /\
                           ~ UNCHANGED <<score, guessesUsed, pixelFactor, status>>)
             /\ ~ ENABLED (handleSkip /\
                           ~ UNCHANGED <<score, guessesUsed, pixelFactor, status>>))

C31_Witness ==
    status = "WON" /\ loads = 2 /\ score >= 2000

\* C32: in SPECIFIC mode, for an artist whose pool at the chosen difficulty
\* holds an item with cover art, every round presents an item not played before, ALL_CLEARED
\* is reached only when no unplayed item of the pool remains, and the only
\* transition out of ALL_CLEARED is to MENU
C32_AllClearedWhenExhausted ==
    /\ [][(/\ status' = "PLAYING" /\ status # "PLAYING"
           /\ gameMode' = "SPECIFIC")
          => targetAlbum'[1].id \notin Range(playedIds)]_vars
    /\ [][(/\ status' = "ALL_CLEARED" /\ status # "ALL_CLEARED"
           /\ gameMode' = "SPECIFIC"
           /\ currentArtist' # Null
           /\ \E id \in Pool(currentArtist', difficulty') : ItemOf(id).cover)
          => Available(Pool(currentArtist', difficulty'), playedIds') = {}]_vars
    /\ [][status = "ALL_CLEARED" /\ status' # "ALL_CLEARED" => status' = "MENU"]_vars

====
